---- MODULE Spec2Model ----
(***************************************************************************)
(* A model of beandatev.py: the two converters beancount2datev and         *)
(* datev2beancount, the account dictionary (load_account_dictionary,       *)
(* expand_asterisk_wildcard) and the command line entry point main.        *)
(***************************************************************************)
EXTENDS Integers, Sequences, FiniteSets

VARIABLES
    pc,                 \* position of the running call
    ctx,                \* who started the run: "lib", "roundtrip" or "main"
    error,              \* the exception that ended the run, or NoError
    \* ---- beancount2datev
    ledger,             \* entries of filename_beancount (list of transactions)
    account_converter_beancount2datev,
    year, date_start, date_stop,
    transactions,       \* the filtered and sorted list (line 57-58)
    idx,                \* position of the loop of line 68
    default_currency,
    buchungsstapel,     \* the batch under construction
    storage,            \* every buchungsstapel.save (line 93), in order
    warnings,           \* number of warnings printed (line 70)
    \* ---- datev2beancount
    datev_file,         \* the batch that is read
    account_converter_datev2beancount,
    d2b_opts,           \* filename_beancount, flag, payee, print_result
    metadata,
    beancount_entries,
    ridx,               \* position of the loop of line 123
    ledger_file,        \* every append to filename_beancount (line 145-146)
    printed,            \* every print_entries to stdout (line 148)
    \* ---- expand_asterisk_wildcard
    account_number,
    collection,
    \* ---- main
    args,
    ret,                \* what main returned
    called,             \* the functions main called, in order
    dict_file           \* every write of create_account_dictionary (line 175-177)

b2dVars == <<ledger, account_converter_beancount2datev, year, date_start,
             date_stop, transactions, idx, default_currency, buchungsstapel,
             storage, warnings>>
d2bVars == <<datev_file, account_converter_datev2beancount, d2b_opts, metadata,
             beancount_entries, ridx, ledger_file, printed>>
expVars == <<account_number, collection>>
mainVars == <<args, ret, called, dict_file>>
vars == <<pc, ctx, error, b2dVars, d2bVars, expVars, mainVars>>

\* Python's None and a present value: every optional value is a sequence of
\* length 0 or 1, so that a variable holds values of one shape only
None == <<>>
Some(x) == <<x>>
Get(o) == o[1]

NoError == "NoError"

\* no converter was passed (the call is not running)
NoConverter == [kind |-> "none", map |-> <<>>, dflt |-> None]

Range(s) == {s[k] : k \in DOMAIN s}

Min(a, b) == IF a < b THEN a ELSE b

\* the variables of a call that is not running
IdleB2D ==
    /\ ledger = <<>> /\ account_converter_beancount2datev = NoConverter
    /\ year = 0 /\ date_start = None /\ date_stop = None
    /\ transactions = <<>> /\ idx = 0 /\ default_currency = ""
    /\ buchungsstapel = None /\ storage = <<>> /\ warnings = 0
IdleD2B ==
    /\ datev_file = None /\ account_converter_datev2beancount = NoConverter
    /\ d2b_opts = None /\ metadata = None /\ beancount_entries = <<>> /\ ridx = 0
    /\ ledger_file = <<>> /\ printed = <<>>
IdleExpand == account_number = <<>> /\ collection = <<>>
IdleMain == args = None /\ ret = None /\ called = <<>> /\ dict_file = <<>>

(***************************************************************************)
(* Bounds of the model.                                                    *)
(***************************************************************************)
MaxPatternLen == 3      \* longest account number pattern that is expanded
MaxTxns == 2            \* most transactions of a ledger
MaxRows == 2            \* most rows of a batch
MaxRoundTrip == 2       \* most transactions of a ledger that is converted and converted back

\* ========================================================================
\* expand_asterisk_wildcard (lines 182-209)
\* ========================================================================

\* str(digit) for digit in range(10)
DigitChars == <<"0", "1", "2", "3", "4", "5", "6", "7", "8", "9">>

\* range(10), line 201
DigitRange_Short == 0 .. 8
DigitRange == 0 .. 9

\* c[i].isdigit()
IsDigit(ch) == ch \in Range(DigitChars)

\* line 201-204: one copy of c per digit, position i overwritten
ExpandOne(c, i) ==
    [d \in 1 .. Cardinality(DigitRange) |-> [c EXCEPT ![i] = DigitChars[d]]]

\* the body of the loop of line 197 for one c: what is appended to
\* collection_new
Piece(c, i) ==
    IF IsDigit(c[i]) THEN <<c>>
    ELSE IF c[i] = "*" THEN ExpandOne(c, i)
    ELSE <<>>

\* collection_new after the loop of line 197 went over coll[lo..hi]
RECURSIVE CollectNew(_, _, _, _)
CollectNew(coll, i, lo, hi) ==
    IF lo > hi THEN <<>>
    ELSE IF lo = hi THEN Piece(coll[lo], i)
    ELSE LET mid == (lo + hi) \div 2
         IN  CollectNew(coll, i, lo, mid) \o CollectNew(coll, i, mid + 1, hi)

\* line 205-206: some c holds neither a digit nor '*' at position i
Raises(coll, i) ==
    \E k \in DOMAIN coll : ~IsDigit(coll[k][i]) /\ coll[k][i] # "*"

\* the loop of line 195 from position i on
RECURSIVE ExpandFrom(_, _, _)
ExpandFrom(coll, i, n) ==
    IF i > n THEN [err |-> NoError, val |-> coll]
    ELSE IF Raises(coll, i) THEN [err |-> "IOError", val |-> <<>>]
    ELSE ExpandFrom(CollectNew(coll, i, 1, Len(coll)), i + 1, n)

expand_asterisk_wildcard(number) ==
    ExpandFrom(<<number>>, 1, Len(number))

\* ========================================================================
\* Numbers, dates and text
\* ========================================================================

(***************************************************************************)
(* A Decimal (beancount's D) is its sign and the digits of its coefficient *)
(* at a fixed exponent, without leading zeros; zero has no digits.  Two    *)
(* Decimals are numerically equal iff the records are equal.               *)
(***************************************************************************)
Dec(neg, digs) == [neg |-> neg, digs |-> digs]

IsZero(x) == \A k \in DOMAIN x.digs : x.digs[k] = 0

\* number of significant digits: the length without the trailing zeros
SigDigits(x) ==
    LET nz == {k \in DOMAIN x.digs : x.digs[k] # 0}
    IN  IF nz = {} THEN 0 ELSE CHOOSE k \in nz : \A j \in nz : j <= k

\* An IEEE double keeps every decimal of up to 15 significant digits apart
\* (DBL_DIG), and str() of a double never shows more than 17.
DblDig == 15
ReprDigits == 17

\* float(x), line 73 and 83.  A decimal of at most DblDig significant digits
\* is recovered exactly by str(); a longer one is rounded: what remains are at
\* most ReprDigits significant digits (taken here as the leading ones).
Float(x) ==
    IF SigDigits(x) <= DblDig THEN x
    ELSE [x EXCEPT !.digs =
             [k \in DOMAIN x.digs |-> IF k <= ReprDigits THEN x.digs[k] ELSE 0]]

\* float(x) < 0, line 73
IsNegative(f) == f.neg /\ ~IsZero(f)

\* str(f): the text of a number is its leading minus signs and its digits
Str(f) == [minus |-> IF f.neg THEN 1 ELSE 0, digs |-> f.digs]

\* sign + text, line 133-134 (sign is '' or '-')
Concat(sign, s) == [s EXCEPT !.minus = @ + (IF sign = "-" THEN 1 ELSE 0)]

\* D(text), line 133-134: a text with two minus signs is no number.  The
\* Decimal -0 equals 0, so zero is kept without sign.
D(s) ==
    IF s.minus > 1 THEN [err |-> "ValueError", val |-> Dec(FALSE, <<>>)]
    ELSE [err |-> NoError,
          val |-> Dec(s.minus = 1 /\ \E k \in DOMAIN s.digs : s.digs[k] # 0,
                      s.digs)]

\* the negation and the absolute value of a Decimal (used by the properties)
Neg(x) == IF IsZero(x) THEN x ELSE [x EXCEPT !.neg = ~@]
Abs(x) == [x EXCEPT !.neg = FALSE]

(***************************************************************************)
(* A datetime.date is the number year * 1000 + day of the year, so that    *)
(* the order of dates is the order of the numbers.                         *)
(***************************************************************************)
DateOf(y, d) == y * 1000 + d
YearOf(dt) == dt \div 1000
\* datetime.date(year,1,1), line 46, and datetime.date(year,12,31), line 51
FirstDay == 1
LastDay == 365

\* t.narration[:60], line 88
NarrationMax == 60
Truncate(text) == SubSeq(text, 1, Min(Len(text), NarrationMax))

\* a posting and a transaction of the ledger
Posting(account, number, currency) ==
    [account |-> account, units |-> [number |-> number, currency |-> currency]]
Txn(date, narration, postings) ==
    [kind |-> "Transaction", date |-> date, narration |-> narration,
     postings |-> postings]
\* an Open directive of the ledger
Open(date, account) == [kind |-> "Open", date |-> date, account |-> account]

\* sorted(list, key = lambda e: e.date), line 58 and 143: a stable sort
RECURSIVE InsertByDate(_, _)
InsertByDate(sorted, e) ==
    IF sorted = <<>> THEN <<e>>
    ELSE IF sorted[Len(sorted)].date <= e.date THEN Append(sorted, e)
    ELSE Append(InsertByDate(SubSeq(sorted, 1, Len(sorted) - 1), e),
                sorted[Len(sorted)])

RECURSIVE SortByDate(_)
SortByDate(list) ==
    IF list = <<>> THEN <<>>
    ELSE InsertByDate(SortByDate(SubSeq(list, 1, Len(list) - 1)),
                      list[Len(list)])

\* Counter(list).most_common()[0][0], line 61-62: the most frequent element,
\* the one met first among equally frequent ones
MostCommon(list) ==
    LET count(c) == Cardinality({k \in DOMAIN list : list[k] = c})
        first(c) == CHOOSE k \in DOMAIN list :
                        list[k] = c /\ \A j \in 1 .. k - 1 : list[j] # c
    IN  CHOOSE c \in Range(list) :
            \A o \in Range(list) :
                \/ count(c) > count(o)
                \/ count(c) = count(o) /\ first(c) <= first(o)

\* ========================================================================
\* The account dictionary (lines 211-246) and the lookup of an account
\* ========================================================================

(***************************************************************************)
(* An account converter is a dict (map, and dflt when it is a defaultdict) *)
(* or a callable (map is then the function it computes).                   *)
(***************************************************************************)
PlainDict(map) == [kind |-> "dict", map |-> map, dflt |-> None]
Callable(map) == [kind |-> "callable", map |-> map, dflt |-> None]

\* d[key] = value
Put(map, key, value) ==
    [k \in DOMAIN map \cup {key} |-> IF k = key THEN value ELSE map[k]]

\* line 76-81 and 126-131: converter[key] for a dict, converter(key) for a
\* callable.  A plain dict raises KeyError for an absent key; a defaultdict
\* stores its default under the absent key and returns it.
Lookup(conv, key) ==
    IF conv.kind = "callable" \/ key \in DOMAIN conv.map
    THEN [err |-> NoError, val |-> Some(conv.map[key]), conv |-> conv]
    ELSE IF conv.dflt # None
    THEN [err |-> NoError, val |-> conv.dflt,
          conv |-> [conv EXCEPT !.map = Put(@, key, Get(conv.dflt))]]
    ELSE [err |-> "KeyError", val |-> None, conv |-> conv]

\* the state of the loop of line 231: the dict and the order of its keys
PutOrdered(d, key, value) ==
    [map  |-> Put(d.map, key, value),
     keys |-> IF key \in DOMAIN d.map THEN d.keys ELSE Append(d.keys, key)]

\* line 236-237: for an in expand_asterisk_wildcard(a): d1[an] = b
PutAll(d, numbers, name) ==
    LET fresh == SelectSeq(
                     [i \in DOMAIN numbers |->
                         [n |-> numbers[i],
                          first |-> \A j \in 1 .. i - 1 : numbers[j] # numbers[i]]],
                     LAMBDA x : x.first /\ x.n \notin DOMAIN d.map)
    IN  [map  |-> [k \in DOMAIN d.map \cup Range(numbers) |->
                      IF k \in Range(numbers) THEN name ELSE d.map[k]],
         keys |-> d.keys \o [i \in DOMAIN fresh |-> fresh[i].n]]

\* the loop of line 231 from row k on
RECURSIVE LoadRows(_, _, _, _)
LoadRows(rows, k, d, allow_wildcards) ==
    IF k > Len(rows) THEN [err |-> NoError, d |-> d]
    ELSE LET a == rows[k][1]
             b == rows[k][2]
         IN  IF a = <<>> THEN [err |-> "IndexError", d |-> d]
             ELSE IF a[1] = "#" THEN LoadRows(rows, k + 1, d, allow_wildcards)
             ELSE IF "*" \in Range(a)
             THEN IF allow_wildcards
                  THEN LET e == expand_asterisk_wildcard(a)
                       IN  IF e.err # NoError THEN [err |-> e.err, d |-> d]
                           ELSE LoadRows(rows, k + 1, PutAll(d, e.val, b),
                                         allow_wildcards)
                  ELSE [err |-> "IOError", d |-> d]
             ELSE LoadRows(rows, k + 1, PutOrdered(d, a, b), allow_wildcards)

\* line 243-245: d2[d1[key]] = key for the keys of d1 in their order, so
\* that the last key of a name is the one that stays
Invert(d) ==
    [name \in {d.map[k] : k \in Range(d.keys)} |->
        LET last == CHOOSE i \in DOMAIN d.keys :
                        /\ d.map[d.keys[i]] = name
                        /\ \A j \in DOMAIN d.keys :
                              d.map[d.keys[j]] = name => j <= i
        IN  d.keys[last]]

\* load_account_dictionary(filename, allow_wildcards, default_account_name):
\* rows are the (number, name) records of the csv file
load_account_dictionary(rows, allow_wildcards, default_account_name) ==
    LET r == LoadRows(rows, 1, [map |-> <<>>, keys |-> <<>>], allow_wildcards)
    IN  [err |-> r.err,
         d1  |-> [kind |-> "dict", map |-> r.d.map,
                  dflt |-> default_account_name],
         d2  |-> PlainDict(Invert(r.d))]

\* ========================================================================
\* beancount2datev (lines 24-94)
\* ========================================================================

\* datev.Buchungsstapel(...), line 65: an empty batch with its header
NewBuchungsstapel(y, von, bis, currency) ==
    [metadata |-> [berater |-> 1001, mandant |-> 1,
                   wirtschaftsjahr_beginn |-> DateOf(y, FirstDay),
                   sachkontennummernlaenge |-> 4,
                   datum_von |-> von, datum_bis |-> bis,
                   waehrungskennzeichen |-> currency],
     data |-> <<>>]

\* buchungsstapel.add_buchung(...), line 83-87, with the two fields set on
\* the returned row (line 88-90).  The optional fields hold None or a value.
Buchung(umsatz, soll_haben, konto, gegenkonto, belegdatum, text, wkz) ==
    [umsatz |-> umsatz, soll_haben |-> soll_haben, kontonummer |-> konto,
     gegenkonto |-> gegenkonto, belegdatum |-> belegdatum,
     buchungstext |-> text, wkz |-> wkz]

\* line 72-74: the posting that becomes the Konto side, and the other one
Primary(t) ==
    IF IsNegative(Float(t.postings[1].units.number))
    THEN t.postings[2] ELSE t.postings[1]
Counter(t) ==
    IF IsNegative(Float(t.postings[1].units.number))
    THEN t.postings[1] ELSE t.postings[2]

\* line 83: umsatz = float(p1.units.number)
Umsatz(p1) == Float(p1.units.number)

\* line 69: the transactions that are skipped with a warning
Skipped(t) == Len(t.postings) > 2

\* line 89-90: the currency override of the row
WKZ(p1, dflt) ==
    IF p1.units.currency # dflt THEN Some(p1.units.currency) ELSE None

\* a run ends with an exception: the position is lost, the error is kept
Raise(e) == pc' = "raised" /\ error' = e

\* lines 41-65: load, set the dates, filter, sort, find the currency, create
\* the batch
B2D_Start ==
    /\ pc = "b2d_start"
    /\ LET all    == SelectSeq(ledger, LAMBDA e : e.kind = "Transaction")
           start  == IF date_start = None
                     THEN DateOf(year, FirstDay) ELSE Get(date_start)
           stop   == IF date_stop = None
                     THEN DateOf(year, LastDay) ELSE Get(date_stop)
           inside == SelectSeq(all, LAMBDA t : start <= t.date /\ t.date <= stop)
           sorted == SortByDate(inside)
       IN  IF \/ date_start # None /\ YearOf(Get(date_start)) # year
              \/ date_stop # None /\ YearOf(Get(date_stop)) # year
           THEN /\ Raise("ValueError")
                /\ UNCHANGED <<date_start, date_stop, transactions,
                               default_currency, buchungsstapel, idx>>
           ELSE /\ date_start' = Some(start)
                /\ date_stop' = Some(stop)
                /\ transactions' = sorted
                /\ IF \/ sorted = <<>>
                      \/ \E k \in DOMAIN sorted : sorted[k].postings = <<>>
                   THEN \* t.postings[0], line 61, or most_common()[0], line 62
                        /\ Raise("IndexError")
                        /\ UNCHANGED <<default_currency, buchungsstapel, idx>>
                   ELSE LET cur == MostCommon(
                                [k \in DOMAIN sorted |->
                                    sorted[k].postings[1].units.currency])
                        IN  /\ default_currency' = cur
                            /\ buchungsstapel' =
                                 Some(NewBuchungsstapel(year, start, stop, cur))
                            /\ idx' = 1
                            /\ pc' = "b2d_loop"
                            /\ error' = error
    /\ UNCHANGED <<ctx, ledger, account_converter_beancount2datev, year,
                   storage, warnings, d2bVars, expVars, mainVars>>

\* lines 68-90: one round of the loop over the transactions
B2D_Loop ==
    /\ pc = "b2d_loop"
    /\ idx <= Len(transactions)
    /\ LET t == transactions[idx]
       IN  IF Skipped(t)
           THEN /\ warnings' = warnings + 1
                /\ idx' = idx + 1
                /\ UNCHANGED <<pc, error, buchungsstapel,
                               account_converter_beancount2datev>>
           ELSE IF Len(t.postings) # 2
           THEN \* p1,p2 = t.postings, line 72
                /\ Raise("ValueError")
                /\ UNCHANGED <<warnings, idx, buchungsstapel,
                               account_converter_beancount2datev>>
           ELSE LET p1 == Primary(t)
                    p2 == Counter(t)
                    k  == Lookup(account_converter_beancount2datev, p1.account)
                    gk == Lookup(k.conv, p2.account)
                IN  IF k.err # NoError
                    THEN /\ Raise(k.err)
                         /\ UNCHANGED <<warnings, idx, buchungsstapel,
                                        account_converter_beancount2datev>>
                    ELSE IF gk.err # NoError
                    THEN /\ Raise(gk.err)
                         /\ account_converter_beancount2datev' = k.conv
                         /\ UNCHANGED <<warnings, idx, buchungsstapel>>
                    ELSE /\ buchungsstapel' =
                              Some([Get(buchungsstapel) EXCEPT !.data =
                                  Append(@, Buchung(Umsatz(p1), "S",
                                      Get(k.val), Get(gk.val), t.date,
                                      Some(Truncate(t.narration)),
                                      WKZ(p1, default_currency)))])
                         /\ account_converter_beancount2datev' = gk.conv
                         /\ idx' = idx + 1
                         /\ UNCHANGED <<pc, error, warnings>>
    /\ UNCHANGED <<ctx, ledger, year, date_start, date_stop, transactions,
                   default_currency, storage, d2bVars, expVars, mainVars>>

\* line 93-94: the loop is over, the batch is saved and returned
B2D_Save ==
    /\ pc = "b2d_loop"
    /\ idx > Len(transactions)
    /\ storage' = Append(storage, Get(buchungsstapel))
    /\ pc' = "b2d_done"
    /\ UNCHANGED <<ctx, error, ledger, account_converter_beancount2datev, year,
                   date_start, date_stop, transactions, idx, default_currency,
                   buchungsstapel, warnings, d2bVars, expVars, mainVars>>

\* ========================================================================
\* datev2beancount (lines 98-149)
\* ========================================================================

\* the fields of a row that may hold None
OptionalFields == {"buchungstext", "wkz"}

\* entry[key], as None or a value
FieldValue(entry, key) ==
    IF key \in OptionalFields THEN entry[key] ELSE Some(entry[key])

\* line 124-125: the signs of the two postings
Sign1_Always(entry) == ""
Sign1(entry) == IF entry.soll_haben = "S" THEN "" ELSE "-"
Sign2(entry) == IF entry.soll_haben = "S" THEN "-" ELSE ""

\* line 132: the row's own currency, else the currency of the header
Currency_HeaderOnly(entry, batch) == batch.metadata.waehrungskennzeichen
Currency(entry, batch) ==
    IF entry.wkz # None THEN Get(entry.wkz)
    ELSE batch.metadata.waehrungskennzeichen

\* line 136-139: the fields named by metadata that are not None on the row,
\* under their mapped keys (the mapping names no key twice)
Kvl(entry, fields) ==
    [key \in {fields[f] : f \in {g \in DOMAIN fields :
                                    FieldValue(entry, g) # None}} |->
        Get(FieldValue(entry, CHOOSE f \in DOMAIN fields : fields[f] = key))]

\* data.Transaction(meta, date, flag, payee, narration, ..., [p1, p2])
Entry(meta, date, flag, payee, narration, postings) ==
    [kind |-> "Transaction", meta |-> meta, date |-> date, flag |-> flag,
     payee |-> payee, narration |-> narration, postings |-> postings]

\* lines 116-122: the batch is loaded from the file (which must exist), or
\* is the one passed; anything else is an IOError
D2B_Start ==
    /\ pc = "d2b_start"
    /\ IF Get(datev_file).type = "str" /\ ~Get(datev_file).exists
       THEN /\ Raise("FileNotFoundError")
            /\ UNCHANGED <<beancount_entries, ridx>>
       ELSE IF Get(datev_file).type \in {"str", "Buchungsstapel"}
       THEN /\ beancount_entries' = <<>>
            /\ ridx' = 1
            /\ pc' = "d2b_loop"
            /\ error' = error
       ELSE /\ Raise("IOError")
            /\ UNCHANGED <<beancount_entries, ridx>>
    /\ UNCHANGED <<ctx, datev_file, account_converter_datev2beancount,
                   d2b_opts, metadata, ledger_file, printed,
                   b2dVars, expVars, mainVars>>

\* lines 123-142: one round of the loop over the rows
D2B_Loop ==
    /\ pc = "d2b_loop"
    /\ ridx <= Len(Get(datev_file).batch.data)
    /\ LET batch == Get(datev_file).batch
           entry == batch.data[ridx]
           k     == Lookup(account_converter_datev2beancount, entry.kontonummer)
           gk    == Lookup(k.conv, entry.gegenkonto)
           n1    == D(Concat(Sign1(entry), Str(entry.umsatz)))
           n2    == D(Concat(Sign2(entry), Str(entry.umsatz)))
           cur   == Currency(entry, batch)
       IN  IF k.err # NoError
           THEN /\ Raise(k.err)
                /\ UNCHANGED <<account_converter_datev2beancount,
                               beancount_entries, ridx>>
           ELSE IF gk.err # NoError
           THEN /\ Raise(gk.err)
                /\ account_converter_datev2beancount' = k.conv
                /\ UNCHANGED <<beancount_entries, ridx>>
           ELSE IF n1.err # NoError \/ n2.err # NoError
           THEN /\ Raise("ValueError")
                /\ account_converter_datev2beancount' = gk.conv
                /\ UNCHANGED <<beancount_entries, ridx>>
           ELSE IF metadata = None
           THEN \* metadata.items(), line 137
                /\ Raise("AttributeError")
                /\ account_converter_datev2beancount' = gk.conv
                /\ UNCHANGED <<beancount_entries, ridx>>
           ELSE /\ beancount_entries' = Append(beancount_entries,
                      Entry([filename |-> Get(datev_file).type,
                             kv |-> Kvl(entry, Get(metadata))],
                            entry.belegdatum, Get(d2b_opts).flag,
                            Get(d2b_opts).payee, entry.buchungstext,
                            <<Posting(Get(k.val), n1.val, cur),
                              Posting(Get(gk.val), n2.val, cur)>>))
                /\ account_converter_datev2beancount' = gk.conv
                /\ ridx' = ridx + 1
                /\ UNCHANGED <<pc, error>>
    /\ UNCHANGED <<ctx, datev_file, d2b_opts, metadata, ledger_file, printed,
                   b2dVars, expVars, mainVars>>

\* lines 143-149: sort, append to the ledger file, print, return
D2B_Finish ==
    /\ pc = "d2b_loop"
    /\ ridx > Len(Get(datev_file).batch.data)
    /\ LET sorted == SortByDate(beancount_entries)
       IN  /\ beancount_entries' = sorted
           /\ ledger_file' = IF Get(d2b_opts).filename_beancount # None
                             THEN Append(ledger_file, sorted) ELSE ledger_file
           /\ printed' = IF Get(d2b_opts).print_result
                         THEN Append(printed, sorted) ELSE printed
    /\ pc' = "d2b_done"
    /\ UNCHANGED <<ctx, error, datev_file, account_converter_datev2beancount,
                   d2b_opts, metadata, ridx, b2dVars, expVars, mainVars>>

\* ========================================================================
\* create_account_dictionary (lines 154-180) and main (lines 248-295)
\* ========================================================================

(***************************************************************************)
(* A path is its stem and its extension.  The name of an opened account    *)
(* is the list of its components (the parts between ':'), each the list    *)
(* of its parts between '-'.                                               *)
(***************************************************************************)
Path(stem, ext) == [stem |-> stem, ext |-> ext]

\* the files that exist when main starts, and what the ledger files and the
\* batch files hold
LedgerFile == Path("ledger", ".beancount")
BatchFile == Path("batch", ".csv")
EmptyBatchFile == Path("empty", ".csv")
NotesFile == Path("notes", ".txt")
OldFile == Path("old", ".out")
DictFile == Path("accounts", ".csv")
WildcardDictFile == Path("wildcards", ".csv")
ExistingFiles == {LedgerFile, BatchFile, EmptyBatchFile, NotesFile, OldFile,
                  DictFile, WildcardDictFile}

\* os.path.isfile
isfile(p) == p \in ExistingFiles
\* os.path.splitext(p)[1]
splitext(p) == p.ext

\* convert_function, line 180: account_name.split(':')[2].split('-')[0]
convert_function(name) ==
    IF Len(name) < 3 THEN [err |-> "IndexError", val |-> <<>>]
    ELSE [err |-> NoError, val |-> name[3][1]]

\* line 163
Header == "#account number (datev), account name (beancount)"

\* lines 164-177
CreateAccountDictionary ==
    /\ pc = "cad_start"
    /\ LET accounts == SelectSeq(ledger, LAMBDA e : e.kind = "Open")
           numbers  == [k \in DOMAIN accounts |->
                           convert_function(accounts[k].account)]
           lines    == <<Header>> \o
                       [k \in DOMAIN accounts |->
                           <<numbers[k].val, accounts[k].account>>]
           out      == Get(args).out
       IN  IF \E k \in DOMAIN numbers : numbers[k].err # NoError
           THEN /\ Raise("IndexError")
                /\ UNCHANGED <<printed, dict_file>>
           ELSE /\ pc' = "cad_done"
                /\ error' = error
                /\ IF out = None
                   THEN /\ printed' = printed \o lines
                        /\ dict_file' = dict_file
                   ELSE IF isfile(Get(out))
                   THEN /\ printed' = Append(printed, "Error: File exists")
                        /\ dict_file' = dict_file
                   ELSE /\ dict_file' = Append(dict_file, lines)
                        /\ printed' = printed
    /\ UNCHANGED <<ctx, b2dVars, datev_file, account_converter_datev2beancount,
                   d2b_opts, metadata, beancount_entries, ridx, ledger_file,
                   expVars, args, ret, called>>

\* loader.load_file: the entries of a ledger file (none when the file is
\* missing)
LedgerEntries(p) ==
    IF p = LedgerFile
    THEN <<Open(DateOf(2021, 1), <<<<"Assets">>, <<"Bank">>, <<"1200", "Giro">>>>),
           Open(DateOf(2021, 1), <<<<"Expenses">>, <<"Food">>, <<"4600">>>>),
           Txn(DateOf(2021, 2), <<"r", "e", "n", "t">>,
               <<Posting("Assets:Bank", Dec(TRUE, <<5>>), "EUR"),
                 Posting("Expenses:Food", Dec(FALSE, <<5>>), "EUR")>>)>>
    ELSE <<>>

\* the rows of a batch file
BatchRows(p) ==
    IF p = BatchFile
    THEN <<Buchung(Dec(FALSE, <<5>>), "S", <<"4", "6", "0", "0">>,
                   <<"1", "2", "0", "0">>, DateOf(2021, 2),
                   Some(<<"r", "e", "n", "t">>), None)>>
    ELSE <<>>

\* the records of an account dictionary file
DictRecords(p) ==
    IF p = WildcardDictFile
    THEN << <<<<"1", "2", "0", "0">>, "Assets:Bank">>,
            <<<<"4", "6", "0", "*">>, "Expenses:Food">> >>
    ELSE << <<<<"1", "2", "0", "0">>, "Assets:Bank">>,
            <<<<"4", "6", "0", "0">>, "Expenses:Food">> >>

\* datetime.datetime.today().year, line 277
Today == DateOf(2026, 1)

\* what main returns without calling a converter
Return(code, message) ==
    /\ ret' = Some(code)
    /\ pc' = "exit"
    /\ printed' = printed \o message
    /\ UNCHANGED <<error, called, ledger, account_converter_beancount2datev,
                   year, datev_file, account_converter_datev2beancount,
                   d2b_opts>>

\* line 257-258: the message for a missing input file (main goes on)
NotFound(a) ==
    IF isfile(a.filename) THEN <<>> ELSE <<"Error: Input file not found.">>

\* lines 255-292, up to the call of a converter
Main ==
    /\ pc = "main"
    /\ LET a   == Get(args)
           ext == splitext(a.filename)
           msg == NotFound(a)
       IN  IF a.out # None /\ isfile(Get(a.out))
           THEN Return(1, msg \o <<"Error: Output file exists.">>)
           ELSE IF ext = ".beancount" /\ a.create_account_dictionary
           THEN /\ called' = Append(called, "create_account_dictionary")
                /\ ledger' = LedgerEntries(a.filename)
                /\ pc' = "cad_start"
                /\ printed' = printed \o msg
                /\ UNCHANGED <<ret, error, account_converter_beancount2datev,
                               year, datev_file,
                               account_converter_datev2beancount, d2b_opts>>
           ELSE IF ext = ".beancount" /\ a.out = None
           THEN Return(1, msg \o <<"Error: parameter --out missing.">>)
           ELSE IF ext = ".beancount" /\ a.account_dictionary = None
           THEN Return(1, msg \o <<"Error: account dictionary required.">>)
           ELSE IF ext = ".beancount"
           THEN LET d == load_account_dictionary(
                             DictRecords(Get(a.account_dictionary)), FALSE, None)
                IN  /\ printed' = printed \o msg
                    /\ IF d.err # NoError
                       THEN /\ Raise(d.err)
                            /\ UNCHANGED <<ret, called, ledger,
                                   account_converter_beancount2datev, year,
                                   datev_file,
                                   account_converter_datev2beancount, d2b_opts>>
                       ELSE /\ called' = Append(called, "beancount2datev")
                            /\ ledger' = LedgerEntries(a.filename)
                            /\ account_converter_beancount2datev' = d.d2
                            /\ year' = IF a.year = None THEN YearOf(Today)
                                       ELSE Get(a.year)
                            /\ pc' = "b2d_start"
                            /\ UNCHANGED <<ret, error, datev_file,
                                   account_converter_datev2beancount, d2b_opts>>
           ELSE IF ext = ".csv" /\ a.account_dictionary = None
           THEN Return(1, msg \o <<"Error: account dictionary required.">>)
           ELSE IF ext = ".csv"
           THEN LET d == load_account_dictionary(
                             DictRecords(Get(a.account_dictionary)), TRUE, None)
                IN  /\ printed' = printed \o msg
                    /\ called' = Append(called, "datev2beancount")
                    /\ datev_file' =
                          Some([type |-> "str", exists |-> isfile(a.filename),
                                batch |-> [NewBuchungsstapel(2021,
                                               DateOf(2021, FirstDay),
                                               DateOf(2021, LastDay), "EUR")
                                             EXCEPT !.data = BatchRows(a.filename)]])
                    /\ account_converter_datev2beancount' = d.d1
                    /\ d2b_opts' = Some([filename_beancount |-> a.out,
                                         flag |-> "txn", payee |-> "",
                                         print_result |-> TRUE])
                    /\ pc' = "d2b_start"
                    /\ UNCHANGED <<ret, error, ledger,
                                   account_converter_beancount2datev, year>>
           ELSE \* no branch for the extension: main returns None
                /\ pc' = "exit"
                /\ printed' = printed \o msg
                /\ UNCHANGED <<ret, error, called, ledger,
                               account_converter_beancount2datev, year,
                               datev_file, account_converter_datev2beancount,
                               d2b_opts>>
    /\ UNCHANGED <<ctx, date_start, date_stop, transactions, idx,
                   default_currency, buchungsstapel, storage, warnings,
                   metadata, beancount_entries, ridx, ledger_file,
                   expVars, args, dict_file>>

\* line 267, 270, 285, 292: the converter returned, main returns 0
Main_Return ==
    /\ ctx = "main"
    /\ pc \in {"cad_done", "b2d_done", "d2b_done"}
    /\ ret' = Some(0)
    /\ pc' = "exit"
    /\ UNCHANGED <<ctx, error, b2dVars, d2bVars, expVars, args, called,
                   dict_file>>

\* line 294-295: the exit status of the process.  What main returns is
\* dropped: the status is 1 only when an exception ends the process.
ExitStatus == IF pc = "raised" THEN 1 ELSE 0

\* ========================================================================
\* The inputs the model draws from
\* ========================================================================
ThisYear == DateOf(2021, 0) \div 1000
Day(d) == DateOf(ThisYear, d)

Five == Dec(FALSE, <<5>>)
MinusFive == Dec(TRUE, <<5>>)
Three == Dec(FALSE, <<3>>)
MinusThree == Dec(TRUE, <<3>>)
Zero == Dec(FALSE, <<>>)

Bank == "Assets:Bank"
Food == "Expenses:Food"
Misc == "Income:Misc"
N1200 == <<"1", "2", "0", "0">>
N4600 == <<"4", "6", "0", "0">>
N9999 == <<"9", "9", "9", "9">>

ShortText == <<"r", "e", "n", "t">>
LongText == [k \in 1 .. NarrationMax + 1 |-> "x"]

\* a name -> number dict that does not know Misc, and a callable that
\* answers for every account
NameToNumber == [a \in {Bank, Food} |-> IF a = Bank THEN N1200 ELSE N4600]
NumberOfName == [a \in {Bank, Food, Misc} |->
                    IF a = Bank THEN N1200 ELSE IF a = Food THEN N4600 ELSE N9999]

\* the posting lists of the ledger -> batch runs: no, one and three
\* postings, and two postings in every pattern of signs
SignPatterns == {<<Five, MinusFive>>, <<MinusFive, Five>>, <<Five, Three>>,
                 <<MinusFive, MinusThree>>, <<Zero, Zero>>}
PostingLists ==
    {<<>>,
     <<Posting(Bank, Zero, "EUR")>>,
     <<Posting(Bank, Five, "EUR"), Posting(Food, MinusThree, "EUR"),
       Posting(Misc, MinusThree, "EUR")>>,
     <<Posting(Bank, Five, "USD"), Posting(Food, MinusFive, "USD")>>}
    \cup {<<Posting(Bank, s[1], "EUR"), Posting(a, s[2], "EUR")>> :
             s \in SignPatterns, a \in {Food, Misc}}

B2DTxns == {Txn(Day(d), n, p) : d \in {2, 5}, n \in {ShortText, LongText},
                                p \in PostingLists}

SeqsUpTo(S, n) == UNION {[1 .. k -> S] : k \in 0 .. n}

InitB2D ==
    /\ pc = "b2d_start" /\ ctx = "lib" /\ error = NoError
    /\ ledger \in SeqsUpTo(B2DTxns, MaxTxns)
    /\ account_converter_beancount2datev \in
           {PlainDict(NameToNumber), Callable(NumberOfName)}
    /\ year = ThisYear
    /\ date_start \in {None, Some(Day(3)), Some(DateOf(ThisYear - 1, 3))}
    /\ date_stop \in {None, Some(Day(1)), Some(Day(4))}
    /\ transactions = <<>> /\ idx = 0 /\ default_currency = ""
    /\ buchungsstapel = None /\ storage = <<>> /\ warnings = 0
    /\ IdleD2B /\ IdleExpand /\ IdleMain

NextB2D == B2D_Start \/ B2D_Loop \/ B2D_Save
SpecB2D == InitB2D /\ [][NextB2D]_vars

\* ---- the inputs of the batch -> ledger runs
Unknown == "Equity:Unknown"

\* the records of an account dictionary file: a comment, one number,
\* one pattern
DictRows == << <<<<"#", "n">>, "name">>,
               <<N1200, Bank>>,
               <<<<"4", "6", "0", "*">>, Food>> >>

\* the callable of a caller: every number has a name
NameOfNumber(n) == IF n = N1200 THEN Bank ELSE IF n = N9999 THEN Misc ELSE Food

D2BConverters ==
    {load_account_dictionary(DictRows, TRUE, None).d1,
     load_account_dictionary(DictRows, TRUE, Some(Unknown)).d1,
     Callable([n \in {N1200, N4600, N9999} |-> NameOfNumber(n)])}

MetadataMaps ==
    {None, Some(<<>>),
     Some([f \in {"wkz", "buchungstext"} |->
              IF f = "wkz" THEN "currency" ELSE "text"])}

\* rows as a batch file holds them, and rows of a negative amount as
\* beancount2datev leaves them in a batch
D2BRows ==
    {Buchung(Five, sh, k, N4600, Day(d), Some(ShortText), w) :
        sh \in {"S", "H"}, k \in {N1200, N9999}, d \in {2, 5},
        w \in {None, Some("USD")}}
    \cup {Buchung(MinusThree, sh, N1200, N4600, Day(2), None, None) :
             sh \in {"S", "H"}}

Batch(rows) == [NewBuchungsstapel(ThisYear, Day(FirstDay), Day(LastDay), "EUR")
                   EXCEPT !.data = rows]

\* how datev2beancount is called: by a program with a batch in its hands, or
\* by the command line on a file
D2BCalls ==
    {<<"Buchungsstapel", [filename_beancount |-> None, flag |-> "txn",
                          payee |-> "", print_result |-> FALSE]>>,
     <<"str", [filename_beancount |-> Some("out.beancount"), flag |-> "txn",
               payee |-> "", print_result |-> TRUE]>>,
     <<"int", [filename_beancount |-> None, flag |-> "txn",
               payee |-> "", print_result |-> FALSE]>>}

InitD2B ==
    /\ pc = "d2b_start" /\ ctx = "lib" /\ error = NoError
    /\ \E rows \in SeqsUpTo(D2BRows, MaxRows), call \in D2BCalls :
          /\ datev_file = Some([type |-> call[1], exists |-> TRUE,
                                  batch |-> Batch(rows)])
          /\ d2b_opts = Some(call[2])
    /\ account_converter_datev2beancount \in D2BConverters
    /\ metadata \in MetadataMaps
    /\ beancount_entries = <<>> /\ ridx = 0
    /\ ledger_file = <<>> /\ printed = <<>>
    /\ IdleB2D /\ IdleExpand /\ IdleMain

NextD2B == D2B_Start \/ D2B_Loop \/ D2B_Finish
SpecD2B == InitD2B /\ [][NextD2B]_vars

\* ---- the inputs of the runs ledger -> batch -> ledger
\* an amount of 18 significant digits
Long == Dec(FALSE, <<1, 2, 3, 4, 5, 6, 7, 8, 9, 1, 2, 3, 4, 5, 6, 7, 8, 9>>)

\* a one-to-one account dictionary file
OneToOneRows == << <<N1200, Bank>>, <<N4600, Food>> >>

\* valid transactions of two postings: amounts of equal magnitude and
\* opposite sign, in either order
ValidAmounts == {<<Five, MinusFive>>, <<MinusFive, Five>>, <<Zero, Zero>>,
                 <<Long, Neg(Long)>>}
CurrencyPairs == {<<"EUR", "EUR">>, <<"USD", "USD">>, <<"USD", "EUR">>}
\* (an amount of zero in one currency only)
ValidPostings ==
    {ac \in ValidAmounts \X CurrencyPairs :
        ac[1][1] # Zero \/ ac[2][1] = ac[2][2]}
ValidTxns ==
    {Txn(Day(d), ShortText,
         <<Posting(Bank, ac[1][1], ac[2][1]), Posting(Food, ac[1][2], ac[2][2])>>) :
        d \in {2, 5}, ac \in ValidPostings}

\* the batch that beancount2datev returned (line 94) is passed to
\* datev2beancount as datev_file (line 118-119)
RT_Back ==
    /\ pc = "b2d_done" /\ ctx = "roundtrip"
    /\ datev_file' = Some([type |-> "Buchungsstapel", exists |-> TRUE,
                           batch |-> Get(buchungsstapel)])
    /\ pc' = "d2b_start"
    /\ UNCHANGED <<ctx, error, account_converter_datev2beancount, d2b_opts,
                   metadata, beancount_entries, ridx, ledger_file, printed,
                   b2dVars, expVars, mainVars>>

InitRT ==
    /\ pc = "b2d_start" /\ ctx = "roundtrip" /\ error = NoError
    /\ ledger \in SeqsUpTo(ValidTxns, MaxRoundTrip)
    /\ LET d == load_account_dictionary(OneToOneRows, FALSE, None)
       IN  /\ account_converter_beancount2datev = d.d2
           /\ account_converter_datev2beancount = d.d1
    /\ year = ThisYear /\ date_start = None /\ date_stop = None
    /\ transactions = <<>> /\ idx = 0 /\ default_currency = ""
    /\ buchungsstapel = None /\ storage = <<>> /\ warnings = 0
    /\ datev_file = None
    /\ d2b_opts = Some([filename_beancount |-> None, flag |-> "txn",
                        payee |-> "", print_result |-> FALSE])
    /\ metadata \in {None, Some(<<>>)}
    /\ beancount_entries = <<>> /\ ridx = 0
    /\ ledger_file = <<>> /\ printed = <<>>
    /\ IdleExpand /\ IdleMain

NextRT == B2D_Start \/ B2D_Loop \/ B2D_Save \/ RT_Back
             \/ D2B_Start \/ D2B_Loop \/ D2B_Finish
SpecRT == InitRT /\ [][NextRT]_vars

\* ---- the command lines of main
CommandLines ==
    [filename : {LedgerFile, Path("gone", ".beancount"), BatchFile,
                 EmptyBatchFile, Path("gone", ".csv"), NotesFile},
     out : {None, Some(Path("new", ".out")), Some(OldFile)},
     create_account_dictionary : BOOLEAN,
     account_dictionary : {None, Some(DictFile), Some(WildcardDictFile)},
     year : {None, Some(2021)}]

InitMain ==
    /\ pc = "main" /\ ctx = "main" /\ error = NoError
    /\ args \in {Some(a) : a \in CommandLines}
    /\ ret = None /\ called = <<>> /\ dict_file = <<>>
    /\ IdleB2D /\ IdleD2B /\ IdleExpand

NextMain == Main \/ CreateAccountDictionary
               \/ B2D_Start \/ B2D_Loop \/ B2D_Save
               \/ D2B_Start \/ D2B_Loop \/ D2B_Finish
               \/ Main_Return
SpecMain == InitMain /\ [][NextMain]_vars

\* ---- the patterns the model expands
PatternChars == {"1", "2", "*", "x"}
Patterns == UNION {[1 .. n -> PatternChars] : n \in 0 .. MaxPatternLen}

InitExpand ==
    /\ pc = "expand" /\ ctx = "lib" /\ error = NoError
    /\ account_number \in Patterns
    /\ collection = <<>>
    /\ IdleB2D /\ IdleD2B /\ IdleMain

Expand ==
    /\ pc = "expand"
    /\ LET r == expand_asterisk_wildcard(account_number)
       IN  /\ error' = r.err
           /\ collection' = r.val
           /\ pc' = IF r.err = NoError THEN "expand_done" ELSE "raised"
    /\ UNCHANGED <<ctx, account_number, b2dVars, d2bVars, mainVars>>

NextExpand == Expand
SpecExpand == InitExpand /\ [][NextExpand]_vars

\* ---- C5
RECURSIVE Pow10(_)
Pow10(w) == IF w = 0 THEN 1 ELSE 10 * Pow10(w - 1)

Wildcards(p) == Cardinality({k \in DOMAIN p : p[k] = "*"})
ValidPattern(p) == \A k \in DOMAIN p : IsDigit(p[k]) \/ p[k] = "*"

\* C5: a pattern over digits and '*' with w wildcards expands to exactly 10^w
\* pairwise distinct strings of the pattern's length, each agreeing with the
\* pattern at every fixed position and holding a digit at every wildcard
\* position; a pattern with any other character raises the format error and
\* returns no list.
C5_Expansion ==
    pc \in {"expand_done", "raised"} =>
        IF ValidPattern(account_number)
        THEN /\ pc = "expand_done" /\ error = NoError
             /\ Len(collection) = Pow10(Wildcards(account_number))
             /\ Cardinality(Range(collection)) = Len(collection)
             /\ \A k \in DOMAIN collection :
                   /\ Len(collection[k]) = Len(account_number)
                   /\ \A j \in DOMAIN account_number :
                         IF account_number[j] = "*"
                         THEN IsDigit(collection[k][j])
                         ELSE collection[k][j] = account_number[j]
        ELSE pc = "raised" /\ error = "IOError" /\ collection = <<>>

C5_Witness ==
    /\ pc = "expand_done"
    /\ account_number = <<"1", "*", "2", "*">> \/ account_number = <<"*", "2", "*">>
    /\ Len(collection) = 100

C5_WitnessRaise ==
    pc = "raised" /\ \E k \in DOMAIN account_number : account_number[k] = "x"

\* ========================================================================
\* Properties of beancount2datev
\* ========================================================================
B2DEnded == pc \in {"b2d_done", "raised"}

StartDate == IF date_start = None THEN DateOf(year, FirstDay) ELSE Get(date_start)
StopDate == IF date_stop = None THEN DateOf(year, LastDay) ELSE Get(date_stop)
DatesInYear == YearOf(StartDate) = year /\ YearOf(StopDate) = year

\* the transactions of the ledger inside [date_start, date_stop]
InRange ==
    SelectSeq(ledger, LAMBDA e : /\ e.kind = "Transaction"
                                 /\ StartDate <= e.date /\ e.date <= StopDate)
TwoPostings == SelectSeq(InRange, LAMBDA t : Len(t.postings) = 2)

\* the converter knows the account
Resolvable(conv, a) == conv.kind = "callable" \/ conv.dflt # None
                          \/ a \in DOMAIN conv.map
AllResolvable ==
    \A k \in DOMAIN TwoPostings : \A j \in 1 .. 2 :
        Resolvable(account_converter_beancount2datev,
                   TwoPostings[k].postings[j].account)

Rows == IF buchungsstapel = None THEN <<>> ELSE Get(buchungsstapel).data

\* C2: every in-range transaction whose posting count is not exactly 2 is
\* skipped with a warning and never raises, so the batch has one row per
\* in-range transaction of exactly 2 postings.
C2_SkipNotTwoPostings ==
    (/\ B2DEnded /\ DatesInYear /\ AllResolvable
     /\ \E k \in DOMAIN InRange : Len(InRange[k].postings) # 2)
    => /\ pc = "b2d_done" /\ error = NoError
       /\ Len(Rows) = Len(TwoPostings)
       /\ warnings = Len(InRange) - Len(TwoPostings)

\* what holds of the code: only a transaction of more than 2 postings is
\* skipped; when every in-range transaction has at least 2, the count is right
C2_SkipMoreThanTwo ==
    (/\ B2DEnded /\ DatesInYear /\ AllResolvable /\ InRange # <<>>
     /\ \A k \in DOMAIN InRange : Len(InRange[k].postings) >= 2)
    => /\ pc = "b2d_done" /\ error = NoError
       /\ Len(Rows) = Len(TwoPostings)
       /\ warnings = Len(InRange) - Len(TwoPostings)

\* C3: whatever the signs of the two amounts, the row that is emitted carries
\* 'S' and the absolute value of the amount of the posting chosen as the
\* primary side, so the row's amount is never negative.
C3_RowAmountIsAbsolute ==
    [][(pc = "b2d_loop" /\ Len(Rows') = Len(Rows) + 1)
        => LET row == Rows'[Len(Rows')]
               p1  == Primary(transactions[idx])
           IN  /\ row.soll_haben = "S"
               /\ row.umsatz = Abs(p1.units.number)
               /\ ~IsNegative(row.umsatz)]_vars

\* what holds of the code: the row carries 'S' and the amount of the primary
\* posting as it is
C3_RowAmountIsPrimary ==
    [][(pc = "b2d_loop" /\ Len(Rows') = Len(Rows) + 1)
        => LET row == Rows'[Len(Rows')]
               p1  == Primary(transactions[idx])
           IN  /\ row.soll_haben = "S"
               /\ row.umsatz = p1.units.number]_vars

\* C4: when no transaction falls inside [date_start, date_stop] (date_stop
\* before date_start within the year, or no transaction in the year), the
\* batch has zero rows and no error is raised.
C4_EmptyRangeGivesEmptyBatch ==
    (B2DEnded /\ DatesInYear /\ InRange = <<>>)
    => pc = "b2d_done" /\ error = NoError /\ buchungsstapel # None /\ Rows = <<>>

\* C10, the writes: the batch is written at most once, and only when the loop
\* is over, with every row in it
C10_WriteOnceAtEnd ==
    /\ Len(storage) <= 1
    /\ storage # <<>> =>
          /\ pc = "b2d_done" /\ idx > Len(transactions)
          /\ storage[1] = Get(buchungsstapel)
    /\ pc = "b2d_done" => Len(storage) = 1
    /\ pc = "raised" => storage = <<>>

\* some in-range transaction of two postings names an account that the
\* static mapping does not hold
SomeUnresolvable ==
    /\ account_converter_beancount2datev.kind = "dict"
    /\ ~AllResolvable

\* C10: the batch is written exactly once and only after every in-range
\* transaction was processed; a run in which a transaction that is not
\* skipped names an account absent from a static mapping aborts with the
\* key-not-found error and writes nothing.
C10_WriteOnceOrKeyError ==
    /\ C10_WriteOnceAtEnd
    /\ (B2DEnded /\ DatesInYear /\ SomeUnresolvable)
          => pc = "raised" /\ error = "KeyError" /\ storage = <<>>


\* ========================================================================
\* Properties of datev2beancount
\* ========================================================================
D2BEnded == pc \in {"d2b_done", "raised"}

\* the rows of the batch that is read
Data == IF datev_file = None THEN <<>> ELSE Get(datev_file).batch.data

\* the row is turned into the transaction: two postings [primary, counter]
\* of negated amounts, the primary one positive for 'S' and negative
\* otherwise, both in the row's currency or else the header's
ConvertedFrom(e, r) ==
    /\ Len(e.postings) = 2
    /\ e.date = r.belegdatum
    /\ e.postings[1].units.number =
          (IF r.soll_haben = "S" THEN r.umsatz ELSE Neg(r.umsatz))
    /\ e.postings[2].units.number = Neg(e.postings[1].units.number)
    /\ \A j \in 1 .. 2 :
          e.postings[j].units.currency =
             (IF r.wkz # None THEN Get(r.wkz)
              ELSE Get(datev_file).batch.metadata.waehrungskennzeichen)

\* C6: every row that is converted gives a transaction of exactly two
\* postings [primary, counter] whose amounts are exact negations of each
\* other, the primary one +amount for the indicator 'S' and -amount otherwise,
\* both in the row's currency override if present, else in the header's
\* default currency.
C6_TwoNegatedPostings ==
    /\ pc = "d2b_loop" =>
          /\ Len(beancount_entries) = ridx - 1
          /\ \A k \in DOMAIN beancount_entries :
                ConvertedFrom(beancount_entries[k], Data[k])
    /\ pc = "d2b_done" =>
          /\ Len(beancount_entries) = Len(Data)
          /\ \A k \in DOMAIN beancount_entries :
                \E j \in DOMAIN Data : ConvertedFrom(beancount_entries[k], Data[j])
          /\ \A j \in DOMAIN Data :
                \E k \in DOMAIN beancount_entries :
                    ConvertedFrom(beancount_entries[k], Data[j])

\* a row with the indicator 'H' and one with 'S', one with a currency of its
\* own, were converted
C6_Witness ==
    /\ pc = "d2b_done"
    /\ Len(beancount_entries) = 2
    /\ \E j, k \in DOMAIN Data :
          /\ Data[j].soll_haben = "H" /\ Data[k].soll_haben = "S"
          /\ Data[j].wkz # None /\ Data[k].wkz = None
    /\ \E k \in DOMAIN beancount_entries :
          IsNegative(beancount_entries[k].postings[1].units.number)

\* C7: a converter never changes the account dictionary it is given, also
\* when it looks up numbers the dictionary file does not hold and a default
\* account name is configured.
C7_DictionaryNotMutated ==
    [][/\ account_converter_datev2beancount' = account_converter_datev2beancount
       /\ account_converter_beancount2datev' = account_converter_beancount2datev]_vars

\* what holds of the code: a dictionary without a default name is not changed
C7_PlainDictionaryNotMutated ==
    [][account_converter_datev2beancount.dflt = None
          => account_converter_datev2beancount' = account_converter_datev2beancount]_vars

\* every account number of the batch can be resolved, and every amount is
\* unsigned
Convertible ==
    /\ datev_file # None
    /\ Get(datev_file).type \in {"str", "Buchungsstapel"}
    /\ \A k \in DOMAIN Data :
          /\ Resolvable(account_converter_datev2beancount, Data[k].kontonummer)
          /\ Resolvable(account_converter_datev2beancount, Data[k].gegenkonto)
          /\ ~IsNegative(Data[k].umsatz)

\* the metadata of the transaction hold exactly the mapped fields that are
\* not None on the row
MetadataFrom(e, r, fields) ==
    /\ DOMAIN e.meta.kv =
          {fields[f] : f \in {g \in DOMAIN fields : FieldValue(r, g) # None}}
    /\ \A f \in DOMAIN fields :
          FieldValue(r, f) # None => e.meta.kv[fields[f]] = Get(FieldValue(r, f))

\* C9: the metadata mapping is optional: without it every row is still
\* converted, with no field of the batch in the metadata; with it exactly the
\* mapped fields that are not None on the row appear under their mapped keys.
C9_MetadataOptional ==
    (D2BEnded /\ Convertible)
    => /\ pc = "d2b_done" /\ error = NoError
       /\ Len(beancount_entries) = Len(Data)
       /\ \A k \in DOMAIN beancount_entries :
             \E j \in DOMAIN Data :
                 /\ ConvertedFrom(beancount_entries[k], Data[j])
                 /\ MetadataFrom(beancount_entries[k], Data[j],
                                 IF metadata = None THEN <<>> ELSE Get(metadata))

\* what holds of the code: the same, when a mapping is passed
C9_MetadataPassed ==
    (D2BEnded /\ Convertible /\ metadata # None) => C9_MetadataOptional


\* ========================================================================
\* Properties of the round trip ledger -> batch -> ledger
\* ========================================================================
Accounts(t) == {t.postings[k].account : k \in DOMAIN t.postings}
Triples(t) ==
    {<<t.postings[k].account, t.postings[k].units.number,
       t.postings[k].units.currency>> : k \in DOMAIN t.postings}

\* the transaction e that came back has the date, the account names and the
\* (account, signed amount, currency) triples of t
Preserved(t, e) ==
    /\ e.date = t.date
    /\ Len(e.postings) = 2
    /\ Accounts(e) = Accounts(t)
    /\ Triples(e) = Triples(t)

OneCurrency(t) == t.postings[1].units.currency = t.postings[2].units.currency
FitsDouble(t) == \A k \in DOMAIN t.postings :
                     SigDigits(t.postings[k].units.number) <= DblDig

RTEnded == ctx = "roundtrip" /\ pc \in {"d2b_done", "raised"}

MainEnded == pc \in {"exit", "raised"}

InputGone == ~isfile(Get(args).filename)
OutExists == Get(args).out # None /\ isfile(Get(Get(args).out))
Converts == \/ splitext(Get(args).filename) = ".csv"
            \/ /\ splitext(Get(args).filename) = ".beancount"
               /\ ~Get(args).create_account_dictionary
DictMissing == Converts /\ Get(args).account_dictionary = None
OutMissing == /\ splitext(Get(args).filename) = ".beancount"
              /\ ~Get(args).create_account_dictionary
              /\ Get(args).out = None

NothingDone ==
    called = <<>> /\ storage = <<>> /\ ledger_file = <<>> /\ dict_file = <<>>

\* C8: main ends with 1, without running a conversion or writing any output,
\* when the input file does not exist, when the --out file exists, when the
\* account dictionary is required and not given, and when --out is required
\* and not given.  It ends with 0 on success.
C8_ExitCodes ==
    ctx = "main" =>
        /\ (InputGone \/ OutExists \/ DictMissing \/ OutMissing)
              => /\ NothingDone
                 /\ MainEnded => ret = Some(1)
        /\ (pc = "exit" /\ called # <<>>) => ret = Some(0)

\* what holds of the code: the same without the missing input file
C8_ExitCodesButInput ==
    ctx = "main" =>
        /\ (OutExists \/ DictMissing \/ OutMissing)
              => /\ NothingDone
                 /\ MainEnded => ret = Some(1)
        /\ (pc = "exit" /\ called # <<>>) => ret = Some(0)

====
